---------------------------- MODULE Spec2Model ----------------------------
(***************************************************************************)
(* Model of scooter (mvfiles.Exec): files and directories of one directory *)
(* are moved into <year>/<month>/<kind>/<name> buckets.                    *)
(*                                                                         *)
(* A Go string is a sequence of one-character strings, so that prefixes,   *)
(* extensions, byte-wise comparison and path splitting are computed.       *)
(* The base directory is the flag's default "." (mvfiles.go:41), for which *)
(* filepath.Join(app.dir, x) is x: every path string is relative to it.    *)
(***************************************************************************)
EXTENDS Integers, Sequences, FiniteSets, TLC

(***************************************************************************)
(* Bounds of the model.                                                    *)
(***************************************************************************)
\* operations of the user in one behaviour: an entry is added to the base
\* directory, or the command is run
MaxOps == 4
\* environment failures (mkdir, rename, stdout) in one behaviour
MaxFaults == 1

(***************************************************************************)
(* Strings.                                                                *)
(***************************************************************************)
Digits == << "0","1","2","3","4","5","6","7","8","9" >>

Upper ==
  << "A","B","C","D","E","F","G","H","I","J","K","L","M",
     "N","O","P","Q","R","S","T","U","V","W","X","Y","Z" >>

Lower ==
  << "a","b","c","d","e","f","g","h","i","j","k","l","m",
     "n","o","p","q","r","s","t","u","v","w","x","y","z" >>

Range(seq) == {seq[n] : n \in 1..Len(seq)}

IndexOf(seq, x) == CHOOSE n \in 1..Len(seq) : seq[n] = x

\* the bytes that occur in the model's strings
Chars == Range(Digits) \cup Range(Upper) \cup Range(Lower) \cup {" ", "-", ".", "/", ":", "_"}

\* the byte value of a character
Ord == [c \in Chars |->
          CASE c \in Range(Digits) -> 47 + IndexOf(Digits, c)
            [] c \in Range(Upper)  -> 64 + IndexOf(Upper, c)
            [] c \in Range(Lower)  -> 96 + IndexOf(Lower, c)
            [] c = " " -> 32
            [] c = "-" -> 45
            [] c = "." -> 46
            [] c = "/" -> 47
            [] c = ":" -> 58
            [] c = "_" -> 95]

\* strings.ToLower on one byte: the letters A..Z map to a..z
LowerChar(c) == IF c \in Range(Upper) THEN Lower[IndexOf(Upper, c)] ELSE c

ToLower(s) == [n \in 1..Len(s) |-> LowerChar(s[n])]

HasPrefix(s, p) == Len(s) >= Len(p) /\ SubSeq(s, 1, Len(p)) = p

TrimPrefix(s, p) == IF HasPrefix(s, p) THEN SubSeq(s, Len(p) + 1, Len(s)) ELSE s

\* the positions of byte c in s
Positions(s, c) == {n \in 1..Len(s) : s[n] = c}

Max(S) == CHOOSE x \in S : \A y \in S : y <= x

Min(S) == CHOOSE x \in S : \A y \in S : x <= y

\* strings.Cut: the text before and after the first sep
Cut(s, sep) ==
  IF Positions(s, sep) = {}
    THEN [before |-> s, after |-> <<>>, found |-> FALSE]
    ELSE LET n == Min(Positions(s, sep))
         IN  [before |-> SubSeq(s, 1, n - 1),
              after  |-> SubSeq(s, n + 1, Len(s)),
              found  |-> TRUE]

\* the pieces of s between occurrences of sep, empty pieces included
RECURSIVE SplitOn(_, _)
SplitOn(s, sep) ==
  IF Positions(s, sep) = {}
    THEN <<s>>
    ELSE LET n == Min(Positions(s, sep))
         IN  <<SubSeq(s, 1, n - 1)>> \o SplitOn(SubSeq(s, n + 1, Len(s)), sep)

\* strings.Fields: the maximal runs of non-space bytes
Fields(s) == SelectSeq(SplitOn(s, " "), LAMBDA w : w /= <<>>)

Contains(seq, x) == \E n \in 1..Len(seq) : seq[n] = x

\* cmp.Compare on strings: byte-wise lexicographic, a proper prefix is less
RECURSIVE Compare(_, _)
Compare(a, b) ==
  IF a = <<>> /\ b = <<>> THEN 0
  ELSE IF a = <<>> THEN -1
  ELSE IF b = <<>> THEN 1
  ELSE IF Ord[Head(a)] < Ord[Head(b)] THEN -1
  ELSE IF Ord[Head(a)] > Ord[Head(b)] THEN 1
  ELSE Compare(Tail(a), Tail(b))

\* the decimal digits of n >= 0 (the verb %d)
RECURSIVE Itoa(_)
Itoa(n) ==
  IF n < 10 THEN <<Digits[n + 1]>> ELSE Itoa(n \div 10) \o <<Digits[(n % 10) + 1]>>

\* zero-padding on the left to width w (the verbs %02d and the layouts 2006, 01)
RECURSIVE PadZero(_, _)
PadZero(s, w) == IF Len(s) >= w THEN s ELSE PadZero(<<"0">> \o s, w)

(***************************************************************************)
(* Paths: path.Ext, filepath.Base, filepath.Dir, and the components the    *)
(* file system resolves a path string into.                                *)
(***************************************************************************)
\* filepath.Base of a clean relative path: the text after the last '/'
Base(s) ==
  IF Positions(s, "/") = {} THEN s
  ELSE SubSeq(s, Max(Positions(s, "/")) + 1, Len(s))

\* filepath.Dir of a clean relative path: the text before the last '/'
Dir(s) ==
  IF Positions(s, "/") = {} THEN <<".">>
  ELSE SubSeq(s, 1, Max(Positions(s, "/")) - 1)

\* path.Ext: the suffix of the last element that starts at its last '.'
Ext(s) ==
  LET b == Base(s)
  IN  IF Positions(b, ".") = {} THEN <<>>
      ELSE SubSeq(b, Max(Positions(b, ".")), Len(b))

\* filepath.Join of two elements
Join(a, b) == IF a = <<".">> THEN b ELSE a \o <<"/">> \o b

\* the components of a relative path string; "." is the base directory itself
Components(s) == IF s = <<".">> THEN <<>> ELSE SplitOn(s, "/")

(***************************************************************************)
(* getKind                                                                 *)
(***************************************************************************)
KindTable ==
  << <<"a","r","c","h","i","v","e",":"," ","b","z"," ","d","m","g"," ","g","z"," ","t","a","r"," ","t","b","z","2"," ","z","i","p">>,
     <<"a","u","d","i","o",":"," ","a","a","c"," ","m","4","a"," ","m","p","3"," ","w","a","v">>,
     <<"d","a","t","a",":"," ","c","s","v"," ","j","s","o","n"," ","x","l","s"," ","x","l","s","x">>,
     <<"d","o","c",":"," ","d","o","c"," ","d","o","c","x"," ","p","a","g","e","s"," ","p","d","f"," ","r","t","f"," ","r","t","f","d"," ","t","x","t">>,
     <<"b","o","o","k",":"," ","e","p","u","b">>,
     <<"i","m","a","g","e",":"," ","a","v","i","f"," ","b","m","p"," ","g","i","f"," ","h","e","i","c"," ","j","p","g"," ","j","p","e","g"," "," ","p","n","g"," ","s","v","g"," ","t","i","f"," ","w","e","b","p">>,
     <<"v","i","d","e","o",":"," ","a","v","i"," ","m","p","4"," ","m","p","e","g">>,
     <<"w","e","b",":"," ","c","s","s"," ","h","t","m","l"," ","i","c","o"," ","j","s"," ","s","a","s","s">> >>

Misc == <<"m","i","s","c">>

\* strings.Cut(s, ":") and strings.Fields(fields) of every line of the table
KindFields ==
  [n \in 1..Len(KindTable) |->
     LET c == Cut(KindTable[n], ":")
     IN  [kind |-> c.before, exts |-> Fields(c.after)]]

\* the lines of the table whose extension list holds ext, in table order
KindsOf(ext) == SelectSeq(KindFields, LAMBDA line : Contains(line.exts, ext))

getKind_CaseSensitive(name) ==
  LET ext == TrimPrefix(Ext(name), <<".">>)
  IN  IF KindsOf(ext) /= <<>> THEN KindsOf(ext)[1].kind ELSE Misc

getKind(name) ==
  LET ext == ToLower(TrimPrefix(Ext(name), <<".">>))
  IN  IF KindsOf(ext) /= <<>> THEN KindsOf(ext)[1].kind ELSE Misc

(***************************************************************************)
(* The file system under the base directory: a function from the paths     *)
(* that exist (sequences of names; the base directory itself is <<>>) to   *)
(* nodes.  A node records whether it is a directory, whose content it is   *)
(* (id) and the date the provider reports for it as added to its           *)
(* directory (ok = FALSE when the provider cannot read it).                *)
(***************************************************************************)
NoDate == [ok |-> FALSE, year |-> 0, month |-> 0]

Date(y, m) == [ok |-> TRUE, year |-> y, month |-> m]

\* the date the provider reports for what is created or moved during a run
Today == Date(2023, 3)

NoId == [p |-> <<>>, g |-> 0]

Parent(p) == SubSeq(p, 1, Len(p) - 1)

IsPrefix(p, q) == Len(p) <= Len(q) /\ SubSeq(q, 1, Len(p)) = p

IsDirAt(f, p) == p = <<>> \/ (p \in DOMAIN f /\ f[p].dir)

\* os.MkdirAll with at most k successful mkdir calls left before the
\* environment refuses one (k = Len(p) never refuses): an existing directory
\* is success, an existing file is failure, a missing directory is created
\* after its parent.
RECURSIVE MkdirAll(_, _, _)
MkdirAll(f, p, k) ==
  IF p = <<>> THEN [fs |-> f, ok |-> TRUE, left |-> k, env |-> FALSE]
  ELSE IF p \in DOMAIN f THEN [fs |-> f, ok |-> f[p].dir, left |-> k, env |-> FALSE]
  ELSE LET r == MkdirAll(f, Parent(p), k)
       IN  IF ~r.ok THEN r
           ELSE IF r.left = 0 THEN [fs |-> r.fs, ok |-> FALSE, left |-> 0, env |-> TRUE]
           ELSE [fs   |-> [q \in DOMAIN r.fs \cup {p} |->
                             IF q = p THEN [dir |-> TRUE, id |-> NoId, added |-> Today]
                                      ELSE r.fs[q]],
                 ok   |-> TRUE,
                 left |-> r.left - 1,
                 env  |-> FALSE]

\* whether os.Rename(old, new) succeeds: the source exists, the parent of the
\* destination is a directory, the destination is not a directory (os.Rename
\* refuses an existing directory), a directory does not replace a file and
\* does not move into itself, and the environment (fault) does not refuse.
RenameOk(f, old, new, fault) ==
  /\ ~fault
  /\ old \in DOMAIN f
  /\ new /= <<>>
  /\ IsDirAt(f, Parent(new))
  /\ ~(new \in DOMAIN f /\ f[new].dir)
  /\ ~(f[old].dir /\ new \in DOMAIN f)
  /\ ~(f[old].dir /\ IsPrefix(old, new))

\* the file system after a successful rename: the subtree at old is at new,
\* a file that was at new is replaced
Renamed(f, old, new) ==
  LET moved == {q \in DOMAIN f : IsPrefix(old, q)}
      at(q) == new \o SubSeq(q, Len(old) + 1, Len(q))
      kept  == (DOMAIN f \ moved) \ {new}
  IN  [q \in kept \cup {at(m) : m \in moved} |->
         IF q \in kept THEN f[q]
         ELSE LET m == CHOOSE m \in moved : at(m) = q
              IN  IF m = old THEN [f[m] EXCEPT !.added = Today] ELSE f[m]]

Rename_ReplacesDirectory(f, old, new, fault) ==
  IF ~fault /\ old \in DOMAIN f /\ new /= <<>> /\ IsDirAt(f, Parent(new))
     /\ ~IsPrefix(old, new)
    THEN [fs |-> Renamed([q \in {q \in DOMAIN f : ~IsPrefix(new, q)} |-> f[q]], old, new),
          ok |-> TRUE]
    ELSE [fs |-> f, ok |-> FALSE]

Rename(f, old, new, fault) ==
  IF RenameOk(f, old, new, fault)
    THEN [fs |-> Renamed(f, old, new), ok |-> TRUE]
    ELSE [fs |-> f, ok |-> FALSE]

\* os.ReadDir of the base directory: its entries, sorted by file name
TopNames(f) == {p[1] : p \in {q \in DOMAIN f : Len(q) = 1}}

RECURSIVE SortNames(_)
SortNames(S) ==
  IF S = {} THEN <<>>
  ELSE LET m == CHOOSE x \in S : \A y \in S : Compare(x, y) <= 0
       IN  <<m>> \o SortNames(S \ {m})

ReadDir(f) == [n \in 1..Cardinality(TopNames(f)) |->
                LET name == SortNames(TopNames(f))[n]
                IN  [name |-> name, dir |-> f[<<name>>].dir]]

(***************************************************************************)
(* getDateAdded, buildName and the name of a directory's destination       *)
(***************************************************************************)
\* the provider's answer for a path: the date the entry was added, or failure
getDateAdded(f, path) ==
  IF Components(path) \in DOMAIN f THEN f[Components(path)].added ELSE NoDate

Slash == <<"/">>

\* fmt.Sprintf("%d/%02d/%s/%s", year, month, kind, name)
buildName(f, path) ==
  LET d == getDateAdded(f, path)
  IN  IF ~d.ok THEN [ok |-> FALSE, name |-> <<>>]
      ELSE [ok   |-> TRUE,
            name |-> Itoa(d.year) \o Slash \o PadZero(Itoa(d.month), 2) \o Slash
                       \o getKind(path) \o Slash \o Base(path)]

\* date.Format("2006/01/") + name
dirName(d, name) ==
  PadZero(Itoa(d.year), 4) \o Slash \o PadZero(Itoa(d.month), 2) \o Slash \o name

\* strings.HasPrefix(name, ".")
IsHidden(name) == HasPrefix(name, <<".">>)

IsYearName_LengthOnly(name) == Len(name) = 4

\* len(name) == 4 && strings.HasPrefix(name, "20")
IsYearName(name) == Len(name) = 4 /\ HasPrefix(name, <<"2", "0">>)

PairCmp_BySource(a, b) == Compare(a.old, b.old)

\* the comparison given to slices.SortFunc
PairCmp(a, b) == Compare(a.new, b.new)

\* slices.SortFunc on a short slice is an insertion sort: each element moves
\* left while it compares less than its left neighbour
RECURSIVE InsertPair(_, _)
InsertPair(s, x) ==
  IF s /= <<>> /\ PairCmp(x, s[Len(s)]) < 0
    THEN InsertPair(SubSeq(s, 1, Len(s) - 1), x) \o <<s[Len(s)]>>
    ELSE s \o <<x>>

RECURSIVE SortFunc(_)
SortFunc(s) ==
  IF s = <<>> THEN <<>>
  ELSE InsertPair(SortFunc(SubSeq(s, 1, Len(s) - 1)), s[Len(s)])

(***************************************************************************)
(* State.                                                                  *)
(***************************************************************************)
VARIABLES
  fs,           \* the file system under the base directory
  dryRun,       \* app.dryRun
  excludeDirs,  \* app.excludeDirs
  pc,           \* where Exec is: idle, files, dirs, report, apply, done
  entries,      \* the listing os.ReadDir returned
  paths,        \* the files to move (first loop), then the loop's range
  dirpaths,     \* the directories to move
  pairs,        \* the batch: records [old, new]
  i,            \* the index of the running loop
  err,          \* what Exec returns: none, readdir, lookup, rename, write
  out,          \* the records written to standard output
  log,          \* the calls made by this run, in order: lookup, mkdirall, rename
  fs0,          \* the file system when this run started
  runs,         \* invocations so far
  ops,          \* operations of the user so far
  faults,       \* environment failures so far
  last          \* how the previous run ended, while nothing was added since

vars == << fs, dryRun, excludeDirs, pc, entries, paths, dirpaths, pairs, i, err,
           out, log, fs0, runs, ops, faults, last >>

env == << runs, ops, faults, last >>

Str_atxt == <<"a", ".", "t", "x", "t">>
Str_Ztxt == <<"Z", ".", "t", "x", "t">>
Str_DSStore == <<".", "D", "S", "_", "S", "t", "o", "r", "e">>
Str_git == <<".", "g", "i", "t">>
Str_2023 == <<"2", "0", "2", "3">>
Str_1999 == <<"1", "9", "9", "9">>
Str_doc == <<"d", "o", "c">>
Str_old == <<"o", "l", "d">>
Str_new == <<"n", "e", "w">>

\* what may be added to the base directory: a file, or a directory with the
\* files it holds, and the answer of the added-date provider for it
Pool ==
  { [name |-> Str_atxt,    dir |-> FALSE, holds |-> {},         date |-> Date(2023, 3)],
    [name |-> Str_atxt,    dir |-> FALSE, holds |-> {},         date |-> Date(1999, 11)],
    [name |-> Str_atxt,    dir |-> FALSE, holds |-> {},         date |-> NoDate],
    [name |-> Str_Ztxt,    dir |-> FALSE, holds |-> {},         date |-> Date(2023, 3)],
    [name |-> Str_DSStore, dir |-> FALSE, holds |-> {},         date |-> NoDate],
    [name |-> Str_2023,    dir |-> FALSE, holds |-> {},         date |-> Date(2023, 3)],
    [name |-> Str_git,     dir |-> TRUE,  holds |-> {},         date |-> NoDate],
    [name |-> Str_2023,    dir |-> TRUE,  holds |-> {},         date |-> NoDate],
    [name |-> Str_1999,    dir |-> TRUE,  holds |-> {},         date |-> Date(2023, 3)],
    [name |-> Str_1999,    dir |-> TRUE,  holds |-> {},         date |-> Date(1999, 11)],
    [name |-> Str_doc,     dir |-> TRUE,  holds |-> {Str_atxt}, date |-> Date(2023, 3)],
    [name |-> Str_doc,     dir |-> TRUE,  holds |-> {Str_atxt}, date |-> Date(1999, 11)],
    [name |-> Str_doc,     dir |-> TRUE,  holds |-> {Str_atxt}, date |-> NoDate] }

\* the file system with entry t, added in generation g
WithEntry(f, t, g) ==
  LET new == {<<t.name>>} \cup {<<t.name, c>> : c \in t.holds}
  IN  [q \in DOMAIN f \cup new |->
         IF q \in DOMAIN f THEN f[q]
         ELSE IF q = <<t.name>> THEN [dir |-> t.dir, id |-> [p |-> q, g |-> g], added |-> t.date]
         ELSE [dir |-> FALSE, id |-> [p |-> q, g |-> g], added |-> Today]]

Empty == [q \in {} |-> NoId]

NoRun == [ok |-> FALSE, excludeDirs |-> FALSE]

Locals0 ==
  /\ entries = <<>>
  /\ paths = <<>>
  /\ dirpaths = <<>>
  /\ pairs = <<>>
  /\ i = 1
  /\ err = "none"
  /\ out = <<>>
  /\ log = <<>>

Init ==
  /\ fs = Empty
  /\ fs0 = Empty
  /\ dryRun = FALSE
  /\ excludeDirs = FALSE
  /\ pc = "idle"
  /\ Locals0
  /\ runs = 0
  /\ ops = 0
  /\ faults = 0
  /\ last = NoRun

Event(op, a, b, ok) == [op |-> op, a |-> a, b |-> b, ok |-> ok]

(***************************************************************************)
(* The environment: between two runs, something is added to the directory. *)
(***************************************************************************)
AddEntry ==
  /\ pc = "idle"
  /\ ops < MaxOps
  /\ \E t \in Pool :
       /\ t.name \notin TopNames(fs)
       /\ fs' = WithEntry(fs, t, runs)
  /\ fs0' = fs'
  /\ ops' = ops + 1
  /\ last' = NoRun
  /\ UNCHANGED << dryRun, excludeDirs, pc, entries, paths, dirpaths, pairs, i, err,
                  out, log, runs, faults >>

(***************************************************************************)
(* Exec, mvfiles.go:78-147, one action per loop iteration.                 *)
(***************************************************************************)
\* the first loop's result (83-91): the non-hidden non-directories
FilePaths(es) ==
  LET keep == SelectSeq(es, LAMBDA e : ~(e.dir \/ IsHidden(e.name)))
  IN  [n \in 1..Len(keep) |-> Join(<<".">>, keep[n].name)]

\* the third loop's result (103-112): the non-hidden directories that are not
\* named like a year
DirPaths(es) ==
  LET keep == SelectSeq(es, LAMBDA e : ~(~e.dir \/ IsHidden(e.name) \/ IsYearName(e.name)))
  IN  [n \in 1..Len(keep) |-> Join(<<".">>, keep[n].name)]

\* CLI: the flags are parsed, Exec lists the directory (79-82) and collects
\* the files (83-91)
StartExec ==
  /\ pc = "idle"
  /\ ops < MaxOps
  /\ ops' = ops + 1
  /\ runs' = runs + 1
  /\ \E dr \in BOOLEAN, xd \in BOOLEAN :
       /\ dryRun' = dr
       /\ excludeDirs' = xd
  /\ fs0' = fs
  /\ \E fault \in BOOLEAN :
       IF fault
         THEN /\ faults < MaxFaults
              /\ faults' = faults + 1
              /\ err' = "readdir"
              /\ pc' = "done"
              /\ UNCHANGED << entries, paths >>
         ELSE /\ entries' = ReadDir(fs)
              /\ paths' = FilePaths(ReadDir(fs))
              /\ pc' = "files"
              /\ UNCHANGED << faults, err >>
  /\ UNCHANGED << fs, dirpaths, pairs, i, out, log, last >>

\* a variant of the loop at 94-100 that skips an entry whose lookup fails
BuildFile_SkipsUnreadable ==
  /\ pc = "files"
  /\ i <= Len(paths)
  /\ LET path == paths[i]
         r    == buildName(fs, path)
     IN  /\ log' = Append(log, Event("lookup", path, <<>>, r.ok))
         /\ pairs' = IF r.ok THEN Append(pairs, [old |-> path, new |-> Join(<<".">>, r.name)])
                             ELSE pairs
         /\ i' = i + 1
         /\ UNCHANGED << pc, err >>
  /\ UNCHANGED << fs, dryRun, excludeDirs, entries, paths, dirpaths, out, fs0, env >>

\* one iteration of the loop at 94-100
BuildFile ==
  /\ pc = "files"
  /\ i <= Len(paths)
  /\ LET path == paths[i]
         r    == buildName(fs, path)
     IN  /\ log' = Append(log, Event("lookup", path, <<>>, r.ok))
         /\ IF r.ok
              THEN /\ pairs' = Append(pairs, [old |-> path, new |-> Join(<<".">>, r.name)])
                   /\ i' = i + 1
                   /\ UNCHANGED << pc, err >>
              ELSE /\ err' = "lookup"
                   /\ pc' = "done"
                   /\ UNCHANGED << pairs, i >>
  /\ UNCHANGED << fs, dryRun, excludeDirs, entries, paths, dirpaths, out, fs0, env >>

\* the end of the loop at 94-100, then 102-112: the directories are collected
\* unless they are excluded
ListDirs ==
  /\ pc = "files"
  /\ i > Len(paths)
  /\ dirpaths' = IF ~excludeDirs THEN DirPaths(entries) ELSE <<>>
  /\ i' = 1
  /\ pc' = "dirs"
  /\ UNCHANGED << fs, dryRun, excludeDirs, entries, paths, pairs, err, out, log, fs0, env >>

\* one iteration of the loop at 113-122
BuildDir ==
  /\ pc = "dirs"
  /\ i <= Len(dirpaths)
  /\ LET dirpath == dirpaths[i]
         date    == getDateAdded(fs, dirpath)
     IN  /\ log' = Append(log, Event("lookup", dirpath, <<>>, date.ok))
         /\ IF date.ok
              THEN /\ pairs' = Append(pairs,
                                 [old |-> dirpath,
                                  new |-> Join(<<".">>, dirName(date, Base(dirpath)))])
                   /\ i' = i + 1
                   /\ UNCHANGED << pc, err >>
              ELSE /\ err' = "lookup"
                   /\ pc' = "done"
                   /\ UNCHANGED << pairs, i >>
  /\ UNCHANGED << fs, dryRun, excludeDirs, entries, paths, dirpaths, out, fs0, env >>

\* the end of the loop at 113-122, then the sort by destination (125-128)
SortPairs ==
  /\ pc = "dirs"
  /\ i > Len(dirpaths)
  /\ pairs' = SortFunc(pairs)
  /\ i' = 1
  /\ pc' = IF dryRun THEN "report" ELSE "apply"
  /\ UNCHANGED << fs, dryRun, excludeDirs, entries, paths, dirpaths, err, out, log, fs0, env >>

\* the records of the report: the header, then one record per pair
Records(ps) == << <<Str_old, Str_new>> >> \o [n \in 1..Len(ps) |-> <<ps[n].old, ps[n].new>>]

\* a variant of the dry run without the return at 137: the batch is applied
\* after the report
Report_FallsThrough ==
  /\ pc = "report"
  /\ out' = Records(pairs)
  /\ pc' = "apply"
  /\ UNCHANGED << fs, dryRun, excludeDirs, entries, paths, dirpaths, pairs, i, err, log,
                  fs0, env >>

\* the dry run (130-138): the report is written and flushed; when standard
\* output fails, the records before the failure are written and the writer's
\* error is returned
Report ==
  /\ pc = "report"
  /\ \E written \in 0..Len(Records(pairs)) :
       /\ out' = SubSeq(Records(pairs), 1, written)
       /\ IF written < Len(Records(pairs))
            THEN /\ faults < MaxFaults
                 /\ faults' = faults + 1
                 /\ err' = "write"
            ELSE UNCHANGED << faults, err >>
  /\ pc' = "done"
  /\ UNCHANGED << fs, dryRun, excludeDirs, entries, paths, dirpaths, pairs, i, log,
                  fs0, runs, ops, last >>

\* what one iteration of the loop at 139-145 does to the file system:
\* os.MkdirAll on the destination's directory with its error dropped (141),
\* then os.Rename (142).  k bounds the mkdir calls the environment lets
\* succeed, fault is the environment refusing the rename.
Move(f, p, k, fault) ==
  LET dir == Components(Dir(p.new))
      mk  == MkdirAll(f, dir, k)
      mv  == Rename(mk.fs, Components(p.old), Components(p.new), fault)
  IN  [fs |-> mv.fs, mkOk |-> mk.ok, mkEnv |-> mk.env, ok |-> mv.ok]

\* the environment failures Move(f, p, k, fault) uses
Used(f, p, k, fault) ==
  LET m == Move(f, p, k, fault)
  IN  IF m.mkEnv \/ (fault /\ m.mkOk) THEN 1 ELSE 0

\* the choices of k and fault that differ in effect: a rename is only refused
\* by the environment when it would otherwise be tried with its directory there
Choices(f, p) ==
  {c \in (0..Len(Components(Dir(p.new)))) \X BOOLEAN :
     /\ (c[1] < Len(Components(Dir(p.new))) => Move(f, p, c[1], c[2]).mkEnv)
     /\ (c[2] => Move(f, p, c[1], FALSE).mkOk)}

ApplyStep_ContinuesOnError ==
  /\ pc = "apply"
  /\ i <= Len(pairs)
  /\ \E c \in Choices(fs, pairs[i]) :
       LET p == pairs[i]
           m == Move(fs, p, c[1], c[2])
       IN  /\ faults + Used(fs, p, c[1], c[2]) <= MaxFaults
           /\ faults' = faults + Used(fs, p, c[1], c[2])
           /\ fs' = m.fs
           /\ log' = log \o << Event("mkdirall", Dir(p.new), <<>>, m.mkOk),
                               Event("rename", p.old, p.new, m.ok) >>
           /\ i' = i + 1
           /\ UNCHANGED << err, pc >>
  /\ UNCHANGED << dryRun, excludeDirs, entries, paths, dirpaths, pairs, out, fs0,
                  runs, ops, last >>

\* one iteration of the loop at 139-145
ApplyStep ==
  /\ pc = "apply"
  /\ i <= Len(pairs)
  /\ \E c \in Choices(fs, pairs[i]) :
       LET p == pairs[i]
           m == Move(fs, p, c[1], c[2])
       IN  /\ faults + Used(fs, p, c[1], c[2]) <= MaxFaults
           /\ faults' = faults + Used(fs, p, c[1], c[2])
           /\ fs' = m.fs
           /\ log' = log \o << Event("mkdirall", Dir(p.new), <<>>, m.mkOk),
                               Event("rename", p.old, p.new, m.ok) >>
           /\ IF m.ok
                THEN /\ i' = i + 1
                     /\ UNCHANGED << err, pc >>
                ELSE /\ err' = "rename"
                     /\ pc' = "done"
                     /\ UNCHANGED i
  /\ UNCHANGED << dryRun, excludeDirs, entries, paths, dirpaths, pairs, out, fs0,
                  runs, ops, last >>

\* the end of the loop at 139-145 and the return at 146
Return ==
  /\ pc = "apply"
  /\ i > Len(pairs)
  /\ pc' = "done"
  /\ UNCHANGED << fs, dryRun, excludeDirs, entries, paths, dirpaths, pairs, i, err, out,
                  log, fs0, env >>

\* CLI returns (33-36) and the process exits: nothing of the run remains but
\* the file system
Exit ==
  /\ pc = "done"
  /\ pc' = "idle"
  /\ entries' = <<>>
  /\ paths' = <<>>
  /\ dirpaths' = <<>>
  /\ pairs' = <<>>
  /\ i' = 1
  /\ err' = "none"
  /\ out' = <<>>
  /\ log' = <<>>
  /\ fs0' = fs
  /\ dryRun' = FALSE
  /\ excludeDirs' = FALSE
  /\ last' = [ok |-> err = "none" /\ ~dryRun, excludeDirs |-> excludeDirs]
  /\ UNCHANGED << fs, runs, ops, faults >>

Next ==
  \/ AddEntry
  \/ StartExec
  \/ BuildFile
  \/ ListDirs
  \/ BuildDir
  \/ SortPairs
  \/ Report
  \/ ApplyStep
  \/ Return
  \/ Exit

Spec == Init /\ [][Next]_vars

(***************************************************************************)
(* What the claims speak of, stated from their words.                      *)
(***************************************************************************)
\* a hidden name starts with '.'
Hidden(name) == name /= <<>> /\ name[1] = "."

\* a year-named entry: exactly 4 bytes, the first two "20"
YearNamed(name) == Len(name) = 4 /\ name[1] = "2" /\ name[2] = "0"

\* the names of the eligible entries of base directory f
Eligible(f, xd) ==
  {name \in TopNames(f) :
     /\ ~Hidden(name)
     /\ \/ ~f[<<name>>].dir
        \/ (~xd /\ ~YearNamed(name))}

\* the batch is built: no lookup failed and the listing succeeded
Built == pc \in {"report", "apply"} \/ (pc = "done" /\ err \notin {"readdir", "lookup"})

\* byte-wise lexicographic order: a is a prefix of b, or less at the first
\* byte where they differ
LexLeq(a, b) ==
  \/ (Len(a) <= Len(b) /\ \A n \in 1..Len(a) : a[n] = b[n])
  \/ \E n \in 1..Len(a) :
       /\ n <= Len(b)
       /\ \A m \in 1..(n - 1) : a[m] = b[m]
       /\ Ord[a[n]] < Ord[b[n]]

\* the calls of the run that change the file system
Mutations == SelectSeq(log, LAMBDA e : e.op \in {"mkdirall", "rename"})

RenameCalls == SelectSeq(log, LAMBDA e : e.op = "rename")

\* the contents of the files of f
FileIds(f) == {f[q].id : q \in {q \in DOMAIN f : ~f[q].dir}}

\* C1: a dry run creates no directory and renames nothing, so that the file
\* system is what it was when the run started, and a report that is written
\* whole is the header old,new and one record per eligible entry.
C1_DryRunNoOp ==
  (dryRun /\ pc /= "idle") =>
    /\ fs = fs0
    /\ Mutations = <<>>
    /\ (pc = "done" /\ err = "none") =>
         /\ Len(out) = 1 + Cardinality(Eligible(fs0, excludeDirs))
         /\ out[1] = <<Str_old, Str_new>>
         /\ \A name \in Eligible(fs0, excludeDirs) :
              Cardinality({n \in 2..Len(out) : out[n][1] = name}) = 1

\* a dry run has reported two entries of a directory that also holds entries
\* that are not eligible
C1_Witness ==
  /\ dryRun
  /\ pc = "done"
  /\ err = "none"
  /\ Len(out) = 3
  /\ Cardinality(TopNames(fs0)) = 3

\* C2: when the date lookup fails for an eligible entry, the run ends with
\* that error and neither creates a directory nor renames anything; and in
\* every run all lookups come before the first change of the file system.
C2_AllOrNothing ==
  /\ (pc /= "idle" /\ \E name \in Eligible(fs0, excludeDirs) : ~fs0[<<name>>].added.ok) =>
       /\ fs = fs0
       /\ Mutations = <<>>
       /\ ~Built
       /\ pc = "done" => err \in {"lookup", "readdir"}
  /\ \A m, n \in 1..Len(log) :
       (m < n /\ log[n].op = "lookup") => log[m].op = "lookup"

\* a run has ended on a lookup that failed after other lookups succeeded
C2_Witness ==
  /\ pc = "done"
  /\ err = "lookup"
  /\ Len(log) = 3
  /\ log[1].ok
  /\ TopNames(fs) = TopNames(fs0)

\* C4: the batch holds exactly one plan for each eligible entry (a file that
\* is not hidden; a directory that is neither hidden nor year-named, unless
\* directories are excluded), and no plan ever has another source.
C4_BatchMembership ==
  /\ \A n \in 1..Len(pairs) : pairs[n].old \in Eligible(fs0, excludeDirs)
  /\ \A m, n \in 1..Len(pairs) : pairs[m].old = pairs[n].old => m = n
  /\ Built => {pairs[n].old : n \in 1..Len(pairs)} = Eligible(fs0, excludeDirs)

\* a batch of two plans is built for a directory that holds a year-named
\* directory as well
C4_Witness ==
  /\ Built
  /\ Len(pairs) = 2
  /\ \E name \in TopNames(fs0) : YearNamed(name) /\ fs0[<<name>>].dir
  /\ \E n \in 1..2 : fs0[<<pairs[n].old>>].dir

\* C5: the batch is in non-decreasing byte-wise order of destination, the
\* records of the report follow it, and the renames are made in its order.
C5_DestinationOrder ==
  /\ Built => \A n \in 1..(Len(pairs) - 1) : LexLeq(pairs[n].new, pairs[n + 1].new)
  /\ (pc = "done" /\ dryRun) =>
       \A n \in 2..Len(out) : out[n] = <<pairs[n - 1].old, pairs[n - 1].new>>
  /\ Built =>
       /\ Len(RenameCalls) <= Len(pairs)
       /\ \A n \in 1..Len(RenameCalls) :
            RenameCalls[n].a = pairs[n].old /\ RenameCalls[n].b = pairs[n].new

\* two renames were made, in the order of their destinations, which is not
\* the order of their sources
C5_Witness ==
  /\ pc = "done"
  /\ ~dryRun
  /\ err = "none"
  /\ Len(RenameCalls) = 2
  /\ ~LexLeq(pairs[1].old, pairs[2].old)

\* where plan n of the batch takes its entry from and to, as paths
From(n) == Components(pairs[n].old)

To(n) == Components(pairs[n].new)

\* the entry plan n was made for is at path q
EntryAt(n, q) == q \in DOMAIN fs /\ fs[q].id = fs0[From(n)].id

\* C3: when rename k fails the run ends with that error, the entries of plans
\* 1..k-1 are found at their destinations and no longer at their sources, and
\* the entries of plans k..n are where they were, no rename after the k-th
\* having been tried.
C3_PartialApply ==
  (pc = "done" /\ err = "rename") =>
    /\ Len(RenameCalls) = i
    /\ ~RenameCalls[i].ok
    /\ \A n \in 1..(i - 1) : RenameCalls[n].ok /\ EntryAt(n, To(n)) /\ ~EntryAt(n, From(n))
    /\ \A n \in i..Len(pairs) : EntryAt(n, From(n))

\* C7: when os.MkdirAll fails for a plan, the run ends at that plan with an
\* error; that step moves nothing and undoes nothing (what existed before it
\* is unchanged, directories apart that the failed call did create), and no
\* later plan is tried.
C7_MkdirFailureAborts ==
  [][ (/\ Len(log') = Len(log) + 2
       /\ log'[Len(log) + 1].op = "mkdirall"
       /\ ~log'[Len(log) + 1].ok)
      => /\ pc' = "done"
         /\ err' = "rename"
         /\ ~log'[Len(log) + 2].ok
         /\ i' = i
         /\ \A q \in DOMAIN fs : q \in DOMAIN fs' /\ fs'[q] = fs[q]
         /\ \A n \in i..Len(pairs) : From(n) \in DOMAIN fs' ]_vars

\* a run has ended at its second plan, whose directory could not be created,
\* with the first plan's entry at its destination
C7_Witness ==
  /\ pc = "done"
  /\ err = "rename"
  /\ i = 2
  /\ Len(log) >= 2
  /\ log[Len(log) - 1].op = "mkdirall"
  /\ ~log[Len(log) - 1].ok
  /\ EntryAt(1, To(1))

\* C8: a run that follows a successful real run, with the same flags and
\* nothing added in between, plans nothing: its batch is empty.
C8_SecondPassEmpty ==
  (pc /= "idle" /\ last.ok /\ last.excludeDirs = excludeDirs) =>
    (paths = <<>> /\ dirpaths = <<>> /\ pairs = <<>>)

\* C9: after a real run that returns no error, the entry of every plan is at
\* the plan's destination and no longer at its source.
C9_FinalLocation ==
  (pc = "done" /\ err = "none" /\ ~dryRun) =>
    \A n \in 1..Len(pairs) : EntryAt(n, To(n)) /\ ~EntryAt(n, From(n))

\* C10, as claimed: every file that existed when a run started exists with
\* the same content when the run has ended.
C10_NoDataLoss ==
  pc = "done" => FileIds(fs0) \subseteq FileIds(fs)

\* the plan a step of the apply loop is at
Applying == pc = "apply" /\ i <= Len(pairs)

\* C10, amended: in every step, a file that existed before the step exists
\* with the same content after it, at its path or, when the step renames an
\* entry that holds it, at the same place under the rename's destination; the
\* one exception is a file at the destination of a file's rename, which the
\* rename replaces.
C10_RenameKeepsFiles ==
  [][ \A q \in {q \in DOMAIN fs : ~fs[q].dir} :
        \/ (q \in DOMAIN fs' /\ fs'[q].id = fs[q].id)
        \/ /\ Applying
           /\ IsPrefix(From(i), q)
           /\ LET to == To(i) \o SubSeq(q, Len(From(i)) + 1, Len(q))
              IN  to \in DOMAIN fs' /\ fs'[to].id = fs[q].id
        \/ /\ Applying
           /\ q = To(i)
           /\ ~fs[From(i)].dir
           /\ fs'[q].id = fs[From(i)].id ]_vars

\* a run has ended without error and a file that existed when it started is
\* gone: a rename has replaced it
C10_Witness ==
  /\ pc = "done"
  /\ err = "none"
  /\ ~(FileIds(fs0) \subseteq FileIds(fs))

(***************************************************************************)
(* The destination of one entry: the command is run once on a directory    *)
(* that holds one entry, whose name and date are drawn from wider sets.    *)
(***************************************************************************)
\* the reference table of the classifier: the extensions of each category
RefTable ==
  {
    [category |-> <<"a", "r", "c", "h", "i", "v", "e">>,
     exts |-> { <<"b", "z">>,
                  <<"d", "m", "g">>,
                  <<"g", "z">>,
                  <<"t", "a", "r">>,
                  <<"t", "b", "z", "2">>,
                  <<"z", "i", "p">> }],
    [category |-> <<"a", "u", "d", "i", "o">>,
     exts |-> { <<"a", "a", "c">>,
                  <<"m", "4", "a">>,
                  <<"m", "p", "3">>,
                  <<"w", "a", "v">> }],
    [category |-> <<"d", "a", "t", "a">>,
     exts |-> { <<"c", "s", "v">>,
                  <<"j", "s", "o", "n">>,
                  <<"x", "l", "s">>,
                  <<"x", "l", "s", "x">> }],
    [category |-> <<"d", "o", "c">>,
     exts |-> { <<"d", "o", "c">>,
                  <<"d", "o", "c", "x">>,
                  <<"p", "a", "g", "e", "s">>,
                  <<"p", "d", "f">>,
                  <<"r", "t", "f">>,
                  <<"r", "t", "f", "d">>,
                  <<"t", "x", "t">> }],
    [category |-> <<"b", "o", "o", "k">>,
     exts |-> { <<"e", "p", "u", "b">> }],
    [category |-> <<"i", "m", "a", "g", "e">>,
     exts |-> { <<"a", "v", "i", "f">>,
                  <<"b", "m", "p">>,
                  <<"g", "i", "f">>,
                  <<"h", "e", "i", "c">>,
                  <<"j", "p", "g">>,
                  <<"j", "p", "e", "g">>,
                  <<"p", "n", "g">>,
                  <<"s", "v", "g">>,
                  <<"t", "i", "f">>,
                  <<"w", "e", "b", "p">> }],
    [category |-> <<"v", "i", "d", "e", "o">>,
     exts |-> { <<"a", "v", "i">>,
                  <<"m", "p", "4">>,
                  <<"m", "p", "e", "g">> }],
    [category |-> <<"w", "e", "b">>,
     exts |-> { <<"c", "s", "s">>,
                  <<"h", "t", "m", "l">>,
                  <<"i", "c", "o">>,
                  <<"j", "s">>,
                  <<"s", "a", "s", "s">> }]
  }

\* a with its lower-case letters in upper case
UpperStr(a) ==
  [n \in 1..Len(a) |-> IF a[n] \in Range(Lower) THEN Upper[IndexOf(Lower, a[n])] ELSE a[n]]

\* a and b are equal up to the case of their letters, b being in lower case
EqualFold(a, b) ==
  /\ Len(a) = Len(b)
  /\ \A n \in 1..Len(a) :
       \/ a[n] = b[n]
       \/ (b[n] \in Range(Lower) /\ Ord[a[n]] = Ord[b[n]] - 32)

\* the text after the last '.' of a name, empty when it has none
AfterLastDot(name) ==
  IF \A n \in 1..Len(name) : name[n] /= "." THEN <<>>
  ELSE LET dot == CHOOSE n \in 1..Len(name) :
                    name[n] = "." /\ \A m \in (n + 1)..Len(name) : name[m] /= "."
       IN  SubSeq(name, dot + 1, Len(name))

\* the category of a name by the reference table, misc when it has none
Category(name) ==
  LET hits == {line \in RefTable :
                 \E e \in line.exts : EqualFold(AfterLastDot(name), e)}
  IN  IF hits = {} THEN <<"m", "i", "s", "c">> ELSE (CHOOSE line \in hits : TRUE).category

\* the year of a date in decimal and its month as two digits, each followed
\* by '/'
YearMonth(d) ==
  << Digits[((d.year \div 1000) % 10) + 1], Digits[((d.year \div 100) % 10) + 1],
     Digits[((d.year \div 10) % 10) + 1], Digits[(d.year % 10) + 1], "/",
     Digits[(d.month \div 10) + 1], Digits[(d.month % 10) + 1], "/" >>

Str_r == <<"r">>
Str_README == <<"R", "E", "A", "D", "M", "E">>

PlanExts ==
  UNION {line.exts : line \in RefTable}
    \cup { <<>>, <<"x", "y", "z">>, <<"t", "b", "z">>, <<"j", "p">>, <<"J", "p", "E", "g">> }

PlanNames ==
  {Str_r \o <<".">> \o e : e \in PlanExts}
    \cup {Str_r \o <<".">> \o UpperStr(e) : e \in PlanExts}
    \cup { Str_README,
           <<"p", "d", "f">>,
           <<"x", ".", "t", "a", "r", ".", "g", "z">>,
           <<"a", ".", "p", "d", "f", ".", "B", "A", "K">>,
           <<"m", "p", "3", ".", "-", "_">> }

PlanDates == {Date(y, m) : y \in {1999, 2023}, m \in {1, 9, 10, 12}}

InitPlan ==
  /\ \E name \in PlanNames, dir \in BOOLEAN, d \in PlanDates :
       fs = WithEntry(Empty, [name |-> name, dir |-> dir, holds |-> {}, date |-> d], 0)
  /\ fs0 = fs
  /\ dryRun = FALSE
  /\ excludeDirs = FALSE
  /\ pc = "idle"
  /\ Locals0
  /\ runs = 0
  /\ ops = MaxOps - 1
  /\ faults = 0
  /\ last = NoRun

NextPlan ==
  \/ StartExec
  \/ BuildFile
  \/ ListDirs
  \/ BuildDir
  \/ SortPairs
  \/ Report
  \/ ApplyStep
  \/ Return
  \/ Exit

SpecPlan == InitPlan /\ [][NextPlan]_vars

\* C6: the destination planned for a file named n with added-date d is
\* <year>/<2-digit month>/<category>/<n>, the category being that of the
\* reference table for the text after the last '.' of n, whatever the case of
\* its letters, and misc when the table has none; for a directory it is
\* <year>/<2-digit month>/<n>.
C6_Destination ==
  \A n \in 1..Len(pairs) :
    LET name == pairs[n].old
        node == fs0[<<name>>]
    IN  pairs[n].new =
          IF node.dir
            THEN YearMonth(node.added) \o name
            ELSE YearMonth(node.added) \o Category(name) \o <<"/">> \o name

\* a file with an upper-case extension, added in a one-digit month, has been
\* moved to its destination
C6_Witness ==
  /\ pc = "done"
  /\ err = "none"
  /\ ~dryRun
  /\ Len(pairs) = 1
  /\ pairs[1].new = <<"2", "0", "2", "3", "/", "0", "9", "/", "i", "m", "a", "g", "e", "/", "r", ".", "J", "P", "E", "G">>
  /\ To(1) \in DOMAIN fs

=============================================================================
